---- MODULE Spec2Model ----
(***************************************************************************)
(* A model of the DCA simulator: the date-completion and interpolation     *)
(* engine of interpollation_filling.py and the DCA engine of plotcomp.py.  *)
(*                                                                         *)
(* Numbers are exact rationals <<numerator, denominator>> with a positive  *)
(* denominator, in lowest terms; the float NaN of pandas is <<0, 0>>.      *)
(* Floating-point rounding is not modelled: the properties below are the   *)
(* exact-arithmetic statements of what the code computes.                  *)
(***************************************************************************)
EXTENDS Integers, Sequences, FiniteSets, TLC

(***************************************************************************)
(* Bounds of the model.                                                    *)
(***************************************************************************)
\* the raw file has at most MaxRows rows
MaxRows == 3
\* the raw dates are the days 0..MaxDay
MaxDay == 3
\* the monthly series of calculate_dca lie in the months 8..MaxMonth: from a
\* September to the next January, across two quarter ends and a year end
MaxMonth == 12
\* collect_dca_scenarios runs on series in the months 8..MaxScenarioMonth
MaxScenarioMonth == 10
\* and reads at most MaxScenarios scenarios
MaxScenarios == 2

(***************************************************************************)
(* Exact arithmetic.                                                       *)
(***************************************************************************)
Abs(n) == IF n < 0 THEN -n ELSE n

RECURSIVE Gcd(_, _)
Gcd(a, b) == IF b = 0 THEN a ELSE Gcd(b, a % b)

NaN == <<0, 0>>

IsNaN(x) == x[2] = 0

Norm(n, d) ==
    LET g == Gcd(Abs(n), Abs(d))
        s == IF d < 0 THEN -1 ELSE 1
    IN  <<(s * n) \div g, (s * d) \div g>>

Num(n) == <<n, 1>>

RAdd(x, y) ==
    IF IsNaN(x) \/ IsNaN(y) THEN NaN
    ELSE Norm(x[1] * y[2] + y[1] * x[2], x[2] * y[2])

RSub(x, y) ==
    IF IsNaN(x) \/ IsNaN(y) THEN NaN
    ELSE Norm(x[1] * y[2] - y[1] * x[2], x[2] * y[2])

RMul(x, y) ==
    IF IsNaN(x) \/ IsNaN(y) THEN NaN
    ELSE Norm(x[1] * y[1], x[2] * y[2])

\* used only with a divisor that is not zero
RDiv(x, y) ==
    IF IsNaN(x) \/ IsNaN(y) THEN NaN
    ELSE Norm(x[1] * y[2], x[2] * y[1])

\* a comparison with NaN is false, as in Python
RGt(x, y) == ~IsNaN(x) /\ ~IsNaN(y) /\ x[1] * y[2] > y[1] * x[2]

RLe(x, y) == ~IsNaN(x) /\ ~IsNaN(y) /\ x[1] * y[2] <= y[1] * x[2]

(***************************************************************************)
(* Helpers on sets and sequences.                                          *)
(***************************************************************************)
SetMin(S) == CHOOSE x \in S : \A y \in S : x <= y

SetMax(S) == CHOOSE x \in S : \A y \in S : y <= x

\* the elements of a set of numbers in increasing order
RECURSIVE SortedSeq(_)
SortedSeq(S) ==
    IF S = {} THEN <<>>
    ELSE LET m == SetMin(S) IN <<m>> \o SortedSeq(S \ {m})

Range(s) == {s[i] : i \in 1..Len(s)}

\* a table is a sequence of rows <<date, value>>
DatesOf(df) == {df[i][1] : i \in 1..Len(df)}

RECURSIVE SumValues(_)
SumValues(vals) ==
    IF vals = <<>> THEN Num(0)
    ELSE RAdd(Head(vals), SumValues(Tail(vals)))

\* the mean of a column, NaN cells left out (pandas skipna); NaN when none is left
MeanOf(vals) ==
    LET known == SelectSeq(vals, LAMBDA v : ~IsNaN(v))
    IN  IF known = <<>> THEN NaN
        ELSE RDiv(SumValues(known), Num(Len(known)))

(***************************************************************************)
(* State.                                                                  *)
(***************************************************************************)
VARIABLES
    \* interpollation_filling.py, fill_missing_dates_with_interpolation
    raw,            \* the rows read from the file (line 15)
    fill_method,    \* the fill_method argument
    df,             \* the table after handle_duplicates
    num_duplicates, \* the count handle_duplicates prints and logs
    df_filled,      \* the table the function returns
    npc,            \* where the function stands
    \* plotcomp.py, calculate_dca: its arguments
    gold_monthly,        \* month -> price, the gold series as passed in
    snp500_monthly,      \* month -> price, the S&P 500 series as passed in
    total_invest,
    gold_percentage,
    snp_percentage,
    start_date,
    rebalance_frequency,
    \* calculate_dca: its locals
    pos,                 \* the place of the for loop in gold_monthly.index
    gold_shares,
    snp500_shares,
    total_invested,
    total_portfolio_values,
    cumulative_invested,
    total_portfolio_value_series,
    cumulative_invested_series,
    pc,                  \* where calculate_dca stands
    \* plotcomp.py, collect_dca_scenarios
    num_scenarios,
    i,                   \* the scenarios completed so far (the loop variable)
    dca_scenarios,       \* the local list
    collected,           \* what collect_dca_scenarios returned
    cpc                  \* where collect_dca_scenarios stands

nvars == <<raw, fill_method, df, num_duplicates, df_filled, npc>>

argvars == <<gold_monthly, snp500_monthly, total_invest, gold_percentage,
             snp_percentage, start_date, rebalance_frequency>>

locvars == <<pos, gold_shares, snp500_shares, total_invested,
             total_portfolio_values, cumulative_invested,
             total_portfolio_value_series, cumulative_invested_series, pc>>

colvars == <<num_scenarios, i, dca_scenarios, collected, cpc>>

vars == <<nvars, argvars, locvars, colvars>>

(***************************************************************************)
(* interpollation_filling.py: handle_duplicates.                           *)
(***************************************************************************)
\* df[date_col].duplicated().any()
AnyDuplicated(t) == \E k, j \in 1..Len(t) : k < j /\ t[k][1] = t[j][1]

\* df[date_col].duplicated(keep=False).sum()
CountDuplicated(t) ==
    Cardinality({k \in 1..Len(t) : \E j \in 1..Len(t) : j # k /\ t[j][1] = t[k][1]})

\* the values of the rows of date d, in row order
ValuesAt(t, d) ==
    LET rows == SelectSeq(t, LAMBDA r : r[1] = d)
    IN  [k \in 1..Len(rows) |-> rows[k][2]]

\* a variant that keeps the first row of the group, as drop_duplicates would
GroupFirst(t, d) == ValuesAt(t, d)[1]

\* the value that stands for the group of date d: its mean
GroupValue(t, d) == MeanOf(ValuesAt(t, d))

\* df.groupby(date_col).mean().reset_index(): one row per date, dates ascending
GroupByMean(t) ==
    LET ds == SortedSeq(DatesOf(t))
    IN  [k \in 1..Len(ds) |-> <<ds[k], GroupValue(t, ds[k])>>]

handle_duplicates(t) == IF AnyDuplicated(t) THEN GroupByMean(t) ELSE t

(***************************************************************************)
(* interpollation_filling.py: resample_and_fill.                           *)
(***************************************************************************)
FillMethods == {"ffill", "bfill", "linear", "mean"}

\* a variant whose range leaves the last date out
AllDatesOpenEnd(t) == SortedSeq(SetMin(DatesOf(t)) .. (SetMax(DatesOf(t)) - 1))

\* pd.date_range(start=df.index.min(), end=df.index.max(), freq='D')
AllDates(t) == SortedSeq(SetMin(DatesOf(t)) .. SetMax(DatesOf(t)))

\* df.reindex(all_dates): the row's value where the date is known, NaN elsewhere
Reindex(t) ==
    LET all_dates == AllDates(t)
    IN  [k \in 1..Len(all_dates) |->
            IF all_dates[k] \in DatesOf(t)
            THEN (CHOOSE r \in Range(t) : r[1] = all_dates[k])[2]
            ELSE NaN]

\* the positions of known values before and after position k of a column
ValidBefore(col, k) == {j \in 1..(k - 1) : ~IsNaN(col[j])}

ValidAfter(col, k) == {j \in (k + 1)..Len(col) : ~IsNaN(col[j])}

\* DataFrame.ffill()
Ffill(col) ==
    [k \in 1..Len(col) |->
        IF ~IsNaN(col[k]) \/ ValidBefore(col, k) = {} THEN col[k]
        ELSE col[SetMax(ValidBefore(col, k))]]

\* DataFrame.bfill()
Bfill(col) ==
    [k \in 1..Len(col) |->
        IF ~IsNaN(col[k]) \/ ValidAfter(col, k) = {} THEN col[k]
        ELSE col[SetMin(ValidAfter(col, k))]]

\* a variant that pads with the last known value instead of interpolating
InterpolatePad(col) == Ffill(col)

\* DataFrame.interpolate(method='linear'): the rows count as equally spaced; a
\* leading NaN stays, a trailing NaN takes the last known value

InterpolateLinear(col) ==
    [k \in 1..Len(col) |->
        IF ~IsNaN(col[k]) \/ ValidBefore(col, k) = {} THEN col[k]
        ELSE LET p == SetMax(ValidBefore(col, k))
             IN  IF ValidAfter(col, k) = {} THEN col[p]
                 ELSE LET q == SetMin(ValidAfter(col, k))
                      IN  RAdd(col[p],
                               RDiv(RMul(RSub(col[q], col[p]), Num(k - p)),
                                    Num(q - p)))]

\* df_resampled.fillna(df_resampled.mean())
FillMean(col) ==
    LET m == MeanOf(col)
    IN  [k \in 1..Len(col) |-> IF IsNaN(col[k]) THEN m ELSE col[k]]

\* lines 62-69: the fill of the chosen method
FillBy(col, method) ==
    CASE method = "ffill"  -> Ffill(col)
      [] method = "bfill"  -> Bfill(col)
      [] method = "linear" -> InterpolateLinear(col)
      [] method = "mean"   -> FillMean(col)

\* the table resample_and_fill returns for a recognized method: the complete
\* calendar, filled by the method, then whatever is left bfilled and ffilled
resample_and_fill(t, method) ==
    LET all_dates == AllDates(t)
        filled    == Ffill(Bfill(FillBy(Reindex(t), method)))
    IN  [k \in 1..Len(all_dates) |-> <<all_dates[k], filled[k]>>]

(***************************************************************************)
(* fill_missing_dates_with_interpolation, step by step.                    *)
(***************************************************************************)
Days == 0..MaxDay

RawValues == {Num(5), Num(7)}

RECURSIVE SeqsUpTo(_, _)
SeqsUpTo(S, n) ==
    IF n = 0 THEN {<<>>}
    ELSE LET shorter == SeqsUpTo(S, n - 1)
         IN  shorter \cup {Append(s, x) : s \in {t \in shorter : Len(t) = n - 1}, x \in S}

(***************************************************************************)
(* plotcomp.py: calculate_dca.                                             *)
(*                                                                         *)
(* A date of a monthly series is the number of its month, counted from a   *)
(* January: month m is in calendar quarter m \div 3 and year m \div 12.    *)
(***************************************************************************)
\* lines 106-107: series.loc[start_date:], the dates from start_date on
GoldIndex == SortedSeq({d \in DOMAIN gold_monthly : d >= start_date})

SnpIndex == {d \in DOMAIN snp500_monthly : d >= start_date}

\* lines 123-124: total_invest * (percentage / 100)
Invest(total, percentage) == RMul(total, RDiv(percentage, Num(100)))

\* a variant that buys at every price but zero
BuyUnlessZero(shares, invest, price) ==
    IF price # Num(0) THEN RAdd(shares, RDiv(invest, price)) ELSE shares

\* lines 127-130: shares are bought only at a price above zero
Buy(shares, invest, price) ==
    IF RGt(price, Num(0)) THEN RAdd(shares, RDiv(invest, price)) ELSE shares

\* a variant that assigns instead of adding
AssignInvested(invested, amount) == amount

\* line 135: total_invested += total_invest
AddInvested(invested, amount) == RAdd(invested, amount)

\* a variant that values the shares held before the purchase
ValueBeforePurchase(gshares, gprice, sshares, sprice) ==
    RAdd(RMul(gold_shares, gprice), RMul(snp500_shares, sprice))

\* lines 133-134, 141: the value of the portfolio at the date's prices
PortfolioValue(gshares, gprice, sshares, sprice) ==
    RAdd(RMul(gshares, gprice), RMul(sshares, sprice))

\* lines 149-150: pd.Series(values, index=gold_monthly.index[:len(values)])
MakeSeries(values) ==
    LET index == GoldIndex
    IN  [k \in 1..Len(values) |-> <<index[k], values[k]>>]

\* line 153: the months in a period of 'M', 'Q', '2Q', 'A'
rebalance_period ==
    [monthly |-> 1, quarterly |-> 3, semiannually |-> 6, annually |-> 12]

RebalanceNames == {"monthly", "quarterly", "semiannually", "annually"}

QuarterEnd(d) == 3 * (d \div 3) + 2

\* the right edge (the label) of the resample bin that holds month d; the bins
\* of '2Q' are laid out from the quarter of the first date of the series
PeriodEnd(d, months, first) ==
    CASE months = 1  -> d
      [] months = 3  -> QuarterEnd(d)
      [] months = 12 -> 12 * (d \div 12) + 11
      [] months = 6  ->
            QuarterEnd(first) + 6 * ((QuarterEnd(d) - QuarterEnd(first) + 3) \div 6)

\* a variant that takes the first row of the bin
BinFirst(series, members) == series[SetMin(members)][2]

\* Resampler.last() of one bin whose rows are at the positions `members`
BinLast(series, members) == series[SetMax(members)][2]

\* lines 155-156: series.resample(freq).last(): one row per bin from the bin of
\* the first date to the bin of the last, NaN for a bin with no row
ResampleLast(series, months) ==
    IF series = <<>> THEN <<>>
    ELSE
      LET first  == series[1][1]
          ends   == [k \in 1..Len(series) |-> PeriodEnd(series[k][1], months, first)]
          e0     == ends[1]
          e1     == ends[Len(series)]
          labels == SortedSeq({e \in e0..e1 : (e - e0) % months = 0})
      IN  [b \in 1..Len(labels) |->
              LET members == {k \in 1..Len(series) : ends[k] = labels[b]}
              IN  <<labels[b],
                    IF members = {} THEN NaN ELSE BinLast(series, members)>>]

\* a variant that logs without reading the last value
NeverRaises(series) == FALSE

\* line 159: series.iloc[-1] raises IndexError on an empty series
LastValueRaises(series) == series = <<>>

Raised == {"IndexError", "ResampleError"}

\* lines 109-119
ResetLocals ==
    /\ pos' = 1
    /\ gold_shares' = Num(0)
    /\ snp500_shares' = Num(0)
    /\ total_invested' = Num(0)
    /\ total_portfolio_values' = <<>>
    /\ cumulative_invested' = <<>>
    /\ total_portfolio_value_series' = <<>>
    /\ cumulative_invested_series' = <<>>

\* lines 121-147: one pass of the loop at a date that both series hold
LoopBody ==
    /\ pc = "loop"
    /\ LET index == GoldIndex
       IN  /\ pos <= Len(index)
           /\ index[pos] \in SnpIndex
           /\ LET date   == index[pos]
                  gprice == gold_monthly[date]
                  sprice == snp500_monthly[date]
                  gs == Buy(gold_shares, Invest(total_invest, gold_percentage), gprice)
                  ss == Buy(snp500_shares, Invest(total_invest, snp_percentage), sprice)
                  ti == AddInvested(total_invested, total_invest)
              IN  /\ gold_shares' = gs
                  /\ snp500_shares' = ss
                  /\ total_invested' = ti
                  /\ cumulative_invested' = Append(cumulative_invested, ti)
                  /\ total_portfolio_values' =
                         Append(total_portfolio_values,
                                PortfolioValue(gs, gprice, ss, sprice))
    /\ pos' = pos + 1
    /\ UNCHANGED <<total_portfolio_value_series, cumulative_invested_series, pc>>
    /\ UNCHANGED <<nvars, argvars, colvars>>

\* lines 121-122: a date of gold_monthly that snp500_monthly lacks is passed over
LoopSkip ==
    /\ pc = "loop"
    /\ LET index == GoldIndex
       IN  /\ pos <= Len(index)
           /\ index[pos] \notin SnpIndex
    /\ pos' = pos + 1
    /\ UNCHANGED <<gold_shares, snp500_shares, total_invested, total_portfolio_values,
                   cumulative_invested, total_portfolio_value_series,
                   cumulative_invested_series, pc>>
    /\ UNCHANGED <<nvars, argvars, colvars>>

\* lines 149-161: the two series are built, resampled when a frequency is given
\* (resample(None), of a name rebalance_period lacks, raises), and the log line
\* reads the last value
Finish ==
    /\ pc = "loop"
    /\ pos > Len(GoldIndex)
    /\ LET pv == MakeSeries(total_portfolio_values)
           ci == MakeSeries(cumulative_invested)
       IN  IF rebalance_frequency = "None"
           THEN /\ total_portfolio_value_series' = pv
                /\ cumulative_invested_series' = ci
                /\ pc' = IF LastValueRaises(pv) THEN "IndexError" ELSE "returned"
           ELSE IF rebalance_frequency \notin DOMAIN rebalance_period
           THEN /\ total_portfolio_value_series' = pv
                /\ cumulative_invested_series' = ci
                /\ pc' = "ResampleError"
           ELSE LET months == rebalance_period[rebalance_frequency]
                    rpv    == ResampleLast(pv, months)
                IN  /\ total_portfolio_value_series' = rpv
                    /\ cumulative_invested_series' = ResampleLast(ci, months)
                    /\ pc' = IF LastValueRaises(rpv) THEN "IndexError" ELSE "returned"
    /\ UNCHANGED <<pos, gold_shares, snp500_shares, total_invested,
                   total_portfolio_values, cumulative_invested>>
    /\ UNCHANGED <<nvars, argvars, colvars>>

(***************************************************************************)
(* plotcomp.py: collect_dca_scenarios.                                     *)
(***************************************************************************)
\* the amounts, percentages and frequencies typed in at the prompts
Portfolios == {<<Num(1000), Num(50)>>, <<Num(600), Num(25)>>}

Frequencies == {"None"} \cup RebalanceNames \cup {"weekly"}

\* line 177: the label of a scenario
ScenarioLabel(n) ==
    <<n, total_invest, gold_percentage, snp_percentage, rebalance_frequency>>

\* lines 167-176: the prompts are read and calculate_dca is entered with the
\* first date of gold_monthly, which an empty series does not have
BeginScenario ==
    /\ cpc = "input"
    /\ i < num_scenarios
    /\ \E portfolio \in Portfolios, frequency \in Frequencies :
          /\ total_invest' = portfolio[1]
          /\ gold_percentage' = portfolio[2]
          /\ snp_percentage' = RSub(Num(100), portfolio[2])
          /\ rebalance_frequency' = frequency
    /\ IF DOMAIN gold_monthly = {}
       THEN /\ cpc' = "IndexError"
            /\ UNCHANGED <<start_date, locvars>>
       ELSE /\ cpc' = "call"
            /\ start_date' = SetMin(DOMAIN gold_monthly)
            /\ ResetLocals
            /\ pc' = "loop"
    /\ UNCHANGED <<gold_monthly, snp500_monthly, num_scenarios, i, dca_scenarios,
                   collected>>
    /\ UNCHANGED nvars

\* line 177
AppendScenario ==
    /\ cpc = "call"
    /\ pc = "returned"
    /\ dca_scenarios' = Append(dca_scenarios,
           <<total_portfolio_value_series, cumulative_invested_series,
             ScenarioLabel(i + 1)>>)
    /\ i' = i + 1
    /\ cpc' = "input"
    /\ pc' = "idle"
    /\ UNCHANGED <<pos, gold_shares, snp500_shares, total_invested,
                   total_portfolio_values, cumulative_invested,
                   total_portfolio_value_series, cumulative_invested_series>>
    /\ UNCHANGED <<num_scenarios, collected>>
    /\ UNCHANGED <<nvars, argvars>>

\* line 176: nothing catches what calculate_dca raises
Propagate ==
    /\ cpc = "call"
    /\ pc \in Raised
    /\ cpc' = pc
    /\ UNCHANGED <<num_scenarios, i, dca_scenarios, collected>>
    /\ UNCHANGED <<nvars, argvars, locvars>>

\* line 178
ReturnScenarios ==
    /\ cpc = "input"
    /\ i = num_scenarios
    /\ collected' = dca_scenarios
    /\ cpc' = "returned"
    /\ UNCHANGED <<num_scenarios, i, dca_scenarios>>
    /\ UNCHANGED <<nvars, argvars, locvars>>

(***************************************************************************)
(* The inputs and the specifications.                                      *)
(***************************************************************************)
\* the prices of month d in price table t, for gold and for the S&P 500
GoldPrice(t, d) ==
    LET table == IF t = 1
                 THEN <<Num(100), Num(110), Num(121), Num(0), Num(-50), Num(100)>>
                 ELSE <<Num(-20), Num(0), Num(40), Num(80), Num(100), Num(25)>>
    IN  table[((d - 8) % 6) + 1]

SnpPrice(t, d) ==
    LET table == IF t = 1
                 THEN <<Num(10), Num(11), <<121, 10>>, Num(5), Num(0), Num(-3)>>
                 ELSE <<Num(3), Num(0), Num(-1), Num(0), Num(4), Num(2)>>
    IN  table[((d - 8) % 6) + 1]

Months == 8..MaxMonth

ScenarioMonths == 8..MaxScenarioMonth

NormalizerIdle ==
    /\ raw = <<>>
    /\ fill_method = "linear"
    /\ df = <<>>
    /\ num_duplicates = 0
    /\ df_filled = <<>>
    /\ npc = "idle"

LocalsIdle ==
    /\ pos = 1
    /\ gold_shares = Num(0)
    /\ snp500_shares = Num(0)
    /\ total_invested = Num(0)
    /\ total_portfolio_values = <<>>
    /\ cumulative_invested = <<>>
    /\ total_portfolio_value_series = <<>>
    /\ cumulative_invested_series = <<>>

CollectIdle ==
    /\ num_scenarios = 0
    /\ i = 0
    /\ dca_scenarios = <<>>
    /\ collected = <<>>
    /\ cpc = "idle"

\* fill_missing_dates_with_interpolation on a file of at most MaxRows rows
NInit ==
    /\ raw \in SeqsUpTo(Days \X RawValues, MaxRows)
    /\ fill_method \in FillMethods \cup {"cubic"}
    /\ df = <<>>
    /\ num_duplicates = 0
    /\ df_filled = <<>>
    /\ npc = "loaded"
    /\ gold_monthly = <<>>
    /\ snp500_monthly = <<>>
    /\ total_invest = Num(0)
    /\ gold_percentage = Num(0)
    /\ snp_percentage = Num(0)
    /\ start_date = 0
    /\ rebalance_frequency = "None"
    /\ LocalsIdle
    /\ pc = "idle"
    /\ CollectIdle

\* line 24
HandleDuplicates ==
    /\ npc = "loaded"
    /\ df' = handle_duplicates(raw)
    /\ num_duplicates' = IF AnyDuplicated(raw) THEN CountDuplicated(raw) ELSE 0
    /\ npc' = "deduplicated"
    /\ UNCHANGED <<raw, fill_method, df_filled>>
    /\ UNCHANGED <<argvars, locvars, colvars>>

\* line 27; the date range of an empty table and an unknown method raise
ResampleAndFill ==
    /\ npc = "deduplicated"
    /\ IF df = <<>> \/ fill_method \notin FillMethods
       THEN /\ npc' = "raised"
            /\ df_filled' = df_filled
       ELSE /\ npc' = "returned"
            /\ df_filled' = resample_and_fill(df, fill_method)
    /\ UNCHANGED <<raw, fill_method, df, num_duplicates>>
    /\ UNCHANGED <<argvars, locvars, colvars>>

NNext == HandleDuplicates \/ ResampleAndFill

SpecNormalize == NInit /\ [][NNext]_vars

(***************************************************************************)
(* Properties of the normalizer, checked under SpecNormalize.              *)
(***************************************************************************)
\* the value of the one row of table t at date d
ValueOn(t, d) == (CHOOSE r \in Range(t) : r[1] = d)[2]

RowsOn(t, d) == {k \in 1..Len(t) : t[k][1] = d}

\* C5: for a raw series of at least one point and a recognized fill method the
\* function returns, and the dates of the table it returns are the calendar
\* days from the least to the greatest raw date, each once, in increasing order
C5_GapClosure ==
    (npc \in {"returned", "raised"} /\ raw # <<>> /\ fill_method \in FillMethods)
    => /\ npc = "returned"
       /\ Len(df_filled) = SetMax(DatesOf(raw)) - SetMin(DatesOf(raw)) + 1
       /\ \A k \in 1..Len(df_filled) : df_filled[k][1] = SetMin(DatesOf(raw)) + k - 1

\* C5 witness: a returned table for raw rows that repeat a date, are out of
\* order and leave days out
C5_Witness ==
    /\ npc = "returned"
    /\ AnyDuplicated(raw)
    /\ \E k \in 1..(Len(raw) - 1) : raw[k][1] > raw[k + 1][1]
    /\ Len(df_filled) > Cardinality(DatesOf(raw))

\* C6: after handle_duplicates every raw date D has exactly one row, whose value
\* times the number k of raw rows of D is the sum of their values (their mean);
\* a date that occurs once keeps its value; no two rows share a date
C6_DeduplicateMean ==
    npc # "loaded"
    => /\ \A d \in DatesOf(raw) :
             /\ Cardinality(RowsOn(df, d)) = 1
             /\ RMul(ValueOn(df, d), Num(Cardinality(RowsOn(raw, d))))
                    = SumValues(ValuesAt(raw, d))
             /\ Cardinality(RowsOn(raw, d)) = 1 => ValueOn(df, d) = ValueOn(raw, d)
       /\ DatesOf(df) = DatesOf(raw)
       /\ Len(df) = Cardinality(DatesOf(raw))

\* C6 witness: the values 5 and 7 on one date have become one row of value 6
C6_Witness ==
    /\ npc = "deduplicated"
    /\ \E d \in DatesOf(raw) :
          /\ ValuesAt(raw, d) = <<Num(5), Num(7)>>
          /\ ValuesAt(df, d) = <<Num(6)>>

\* the dates t1 < t2 of df with no date of df between them
Neighbours(t1, t2) ==
    /\ t1 \in DatesOf(df)
    /\ t2 \in DatesOf(df)
    /\ t1 < t2
    /\ \A t \in (t1 + 1)..(t2 - 1) : t \notin DatesOf(df)

\* C7: with fill method linear, a day t between neighbouring known dates t1 and
\* t2 of values v1 and v2 gets v1 + (v2 - v1) * (t - t1) / (t2 - t1), and the
\* known dates keep their values
C7_LinearInterpolation ==
    (npc = "returned" /\ fill_method = "linear")
    => /\ \A d \in DatesOf(df) : ValueOn(df_filled, d) = ValueOn(df, d)
       /\ \A t1, t2 \in Days :
             Neighbours(t1, t2)
             => \A t \in (t1 + 1)..(t2 - 1) :
                   ValueOn(df_filled, t) =
                       RAdd(ValueOn(df, t1),
                            RDiv(RMul(RSub(ValueOn(df, t2), ValueOn(df, t1)),
                                      Num(t - t1)),
                                 Num(t2 - t1)))

\* C7 witness: a linear fill of a gap of at least two days between two
\* different values
C7_Witness ==
    /\ npc = "returned"
    /\ fill_method = "linear"
    /\ \E t1, t2 \in Days :
          /\ Neighbours(t1, t2)
          /\ t2 - t1 >= 3
          /\ ValueOn(df, t1) # ValueOn(df, t2)

\* one call of calculate_dca on two monthly series over Months
Init ==
    /\ NormalizerIdle
    /\ \E t \in 1..2 :
          /\ gold_monthly \in {[d \in S |-> GoldPrice(t, d)] : S \in SUBSET Months}
          /\ snp500_monthly \in {[d \in S |-> SnpPrice(t, d)] : S \in SUBSET Months}
    /\ \E portfolio \in Portfolios :
          /\ total_invest = portfolio[1]
          /\ gold_percentage = portfolio[2]
          /\ snp_percentage = RSub(Num(100), portfolio[2])
    /\ start_date \in {8, 10}
    /\ rebalance_frequency \in Frequencies
    /\ LocalsIdle
    /\ pc = "loop"
    /\ CollectIdle

Next == LoopBody \/ LoopSkip \/ Finish

Spec == Init /\ [][Next]_vars

(***************************************************************************)
(* Properties of calculate_dca, checked under Spec.                        *)
(***************************************************************************)
\* the dates from start_date on that both series hold
Eligible ==
    {d \in DOMAIN gold_monthly \cap DOMAIN snp500_monthly : d >= start_date}

\* the loop stands before a pass at a date of both series
AtSimulatedDate ==
    /\ pc = "loop"
    /\ pos <= Len(GoldIndex)
    /\ GoldIndex[pos] \in Eligible

PriceA == gold_monthly[GoldIndex[pos]]

PriceB == snp500_monthly[GoldIndex[pos]]

Positive(x) == RGt(x, Num(0))

\* monthlyInvestment * percentage / 100 / price
SharesFor(percentage, price) ==
    RDiv(RDiv(RMul(total_invest, percentage), Num(100)), price)

\* the two series of the example: A = 100, 110, 121 and B = 10, 11, 12.1 from
\* the start date on, 1000 a month split 50/50
IsExample ==
    /\ {8, 9, 10} \subseteq Eligible
    /\ start_date = 8
    /\ <<gold_monthly[8], gold_monthly[9], gold_monthly[10]>>
           = <<Num(100), Num(110), Num(121)>>
    /\ <<snp500_monthly[8], snp500_monthly[9], snp500_monthly[10]>>
           = <<Num(10), Num(11), <<121, 10>>>>
    /\ total_invest = Num(1000)
    /\ gold_percentage = Num(50)
    /\ snp_percentage = Num(50)

C1_Example ==
    IsExample
    => /\ Len(total_portfolio_values) >= 1
          => /\ total_portfolio_values[1] = Num(1000)
             /\ cumulative_invested[1] = Num(1000)
       /\ Len(total_portfolio_values) >= 2
          => /\ total_portfolio_values[2] = Num(2100)
             /\ cumulative_invested[2] = Num(2000)
       /\ (pc = "returned" /\ rebalance_frequency = "None")
          => /\ total_portfolio_value_series[1][2] = Num(1000)
             /\ cumulative_invested_series[1][2] = Num(1000)
             /\ total_portfolio_value_series[2][2] = Num(2100)
             /\ cumulative_invested_series[2][2] = Num(2000)

\* C1: a pass at a date where both prices are positive adds
\* monthlyInvestment * pct / 100 / price to the shares of each asset and appends
\* the value sharesA * priceA + sharesB * priceB of the shares after the purchase;
\* the example gives value 1000, invested 1000, then value 2100, invested 2000
C1_PurchaseAndValue ==
    /\ [][(AtSimulatedDate /\ Positive(PriceA) /\ Positive(PriceB))
           => /\ gold_shares' = RAdd(gold_shares, SharesFor(gold_percentage, PriceA))
              /\ snp500_shares' = RAdd(snp500_shares, SharesFor(snp_percentage, PriceB))
              /\ Len(total_portfolio_values') = Len(total_portfolio_values) + 1
              /\ total_portfolio_values'[Len(total_portfolio_values')]
                     = RAdd(RMul(gold_shares', PriceA), RMul(snp500_shares', PriceB))]_vars
    /\ []C1_Example

\* C1 witness: the second step of the example has been recorded
C1_Witness ==
    /\ IsExample
    /\ rebalance_frequency = "None"
    /\ pc = "returned"
    /\ Len(total_portfolio_values) >= 2
    /\ total_portfolio_values[2] = Num(2100)

\* the dates of a series, in its order
IndexOf(series) == [k \in 1..Len(series) |-> series[k][1]]

\* C2: without rebalancing the two returned series have one point for each date
\* from start_date on that both input series hold, indexed by that date, and no
\* point at any other date
C2_PointsAtEligibleDates ==
    (pc = "returned" /\ rebalance_frequency = "None")
    => /\ IndexOf(total_portfolio_value_series) = SortedSeq(Eligible)
       /\ IndexOf(cumulative_invested_series) = SortedSeq(Eligible)

\* the passes made so far at a date of both series
StepsDone ==
    LET index == GoldIndex
    IN  Cardinality({k \in 1..(pos - 1) : index[k] \in Eligible})

\* no later value of the series is below an earlier one; a period without a
\* value (NaN) has nothing to compare
NonDecreasing(series) ==
    \A a, b \in 1..Len(series) :
        (a < b /\ ~IsNaN(series[a][2]) /\ ~IsNaN(series[b][2]))
        => RLe(series[a][2], series[b][2])

\* C3: the invested total is zero before the first step and n times the monthly
\* investment after the n-th simulated step, and the returned series of the
\* invested total never decreases
C3_Conservation ==
    /\ Len(cumulative_invested) = StepsDone
    /\ total_invested = RMul(Num(StepsDone), total_invest)
    /\ \A n \in 1..Len(cumulative_invested) :
          cumulative_invested[n] = RMul(Num(n), total_invest)
    /\ pc = "returned" => NonDecreasing(cumulative_invested_series)

\* C3 witness: a returned, rebalanced run of at least three simulated steps
C3_Witness ==
    /\ pc = "returned"
    /\ rebalance_frequency = "quarterly"
    /\ StepsDone >= 3
    /\ Len(cumulative_invested_series) >= 2

\* C4: a pass at a date where the price of an asset is zero or negative leaves
\* the shares of that asset as they were, raises nothing and still adds the
\* monthly investment to the invested total; the other asset is bought or
\* skipped by its own price
C4_ZeroPriceSkip ==
    [][AtSimulatedDate
       => /\ ~Positive(PriceA) => gold_shares' = gold_shares
          /\ ~Positive(PriceB) => snp500_shares' = snp500_shares
          /\ (~Positive(PriceA) /\ Positive(PriceB))
                => snp500_shares' = RAdd(snp500_shares, SharesFor(snp_percentage, PriceB))
          /\ (Positive(PriceA) /\ ~Positive(PriceB))
                => gold_shares' = RAdd(gold_shares, SharesFor(gold_percentage, PriceA))
          /\ (~Positive(PriceA) \/ ~Positive(PriceB))
                => /\ total_invested' = RAdd(total_invested, total_invest)
                   /\ pc' = "loop"]_vars

\* C4 witness: a pass has been made at a date where gold had a negative price
\* and the S&P 500 a positive one, and only S&P 500 shares are held
C4_Witness ==
    /\ pc = "loop"
    /\ pos > 1
    /\ GoldIndex[pos - 1] \in Eligible
    /\ RGt(Num(0), gold_monthly[GoldIndex[pos - 1]])
    /\ Positive(snp500_monthly[GoldIndex[pos - 1]])
    /\ gold_shares = Num(0)
    /\ Positive(snp500_shares)

\* C8: when no date from start_date on is in both series, calculate_dca does not
\* return: for no frequency and for each of the four frequencies it ends in the
\* error of the empty result, and a returned series is never empty
C8_NoEligibleDates ==
    /\ Eligible = {}
       => /\ pc # "returned"
          /\ (pc # "loop" /\ rebalance_frequency \in {"None"} \cup RebalanceNames)
                => pc = "IndexError"
    /\ pc = "returned"
       => /\ total_portfolio_value_series # <<>>
          /\ cumulative_invested_series # <<>>

\* C8 witness: two non-empty series with no common date, a rebalance frequency,
\* and the call has ended in the error
C8_Witness ==
    /\ pc = "IndexError"
    /\ Eligible = {}
    /\ GoldIndex # <<>>
    /\ SnpIndex # {}
    /\ rebalance_frequency = "quarterly"

\* the shares bought over a set of dates: invest / price at each date of a
\* positive price
RECURSIVE BoughtOver(_, _, _)
BoughtOver(dates, price, invest) ==
    IF dates = {} THEN Num(0)
    ELSE LET d == SetMin(dates)
         IN  RAdd(IF Positive(price[d]) THEN RDiv(invest, price[d]) ELSE Num(0),
                  BoughtOver(dates \ {d}, price, invest))

\* the months of a period of the rebalance cadence
CadenceMonths ==
    CASE rebalance_frequency = "monthly"      -> 1
      [] rebalance_frequency = "quarterly"    -> 3
      [] rebalance_frequency = "semiannually" -> 6
      [] rebalance_frequency = "annually"     -> 12

\* month d lies in the period of `months` months that ends with month e
InPeriod(d, e, months) == e - months < d /\ d <= e

\* the rows of series src in the period that ends with month e
RowsIn(src, e, months) == {k \in 1..Len(src) : InPeriod(src[k][1], e, months)}

\* series out is series src taken down to the cadence: its rows are at period
\* ends one period apart, from the period of the first row of src to that of
\* the last, and a period that holds rows of src has the value of the last one
Downsampled(out, src, months) ==
    /\ out # <<>>
    /\ \A b \in 1..(Len(out) - 1) : out[b + 1][1] = out[b][1] + months
    /\ \A b \in 1..Len(out) : months > 1 => out[b][1] % 3 = 2
    /\ \A b \in 1..Len(out) : months = 12 => out[b][1] % 12 = 11
    /\ InPeriod(src[1][1], out[1][1], months)
    /\ InPeriod(src[Len(src)][1], out[Len(out)][1], months)
    /\ \A b \in 1..Len(out) :
          LET rows == RowsIn(src, out[b][1], months)
          IN  rows # {} => out[b][2] = src[SetMax(rows)][2]

\* C10: with a rebalance frequency the shares are those of the run without one
\* (what is bought over the eligible dates), each returned series is the series
\* of the run without one taken down to the cadence by the last value of each
\* period, and the two returned series have the same dates and length
C10_RebalanceDownsamples ==
    (pc = "returned" /\ rebalance_frequency \in RebalanceNames)
    => /\ gold_shares =
              BoughtOver(Eligible, gold_monthly, Invest(total_invest, gold_percentage))
       /\ snp500_shares =
              BoughtOver(Eligible, snp500_monthly, Invest(total_invest, snp_percentage))
       /\ Downsampled(total_portfolio_value_series,
                      MakeSeries(total_portfolio_values), CadenceMonths)
       /\ Downsampled(cumulative_invested_series,
                      MakeSeries(cumulative_invested), CadenceMonths)
       /\ IndexOf(total_portfolio_value_series) = IndexOf(cumulative_invested_series)

\* C10 witness: a half-yearly run of at least three steps returned in two rows,
\* the last at a period end that is no date of the input
C10_Witness ==
    /\ pc = "returned"
    /\ rebalance_frequency = "semiannually"
    /\ StepsDone >= 3
    /\ Len(total_portfolio_value_series) = 2
    /\ total_portfolio_value_series[2][1] \notin DOMAIN gold_monthly

\* collect_dca_scenarios on two monthly series over ScenarioMonths
ScenariosInit ==
    /\ NormalizerIdle
    /\ \E t \in 1..2 :
          /\ gold_monthly \in {[d \in S |-> GoldPrice(t, d)] : S \in SUBSET ScenarioMonths}
          /\ snp500_monthly \in {[d \in S |-> SnpPrice(t, d)] : S \in SUBSET ScenarioMonths}
    /\ total_invest = Num(0)
    /\ gold_percentage = Num(0)
    /\ snp_percentage = Num(0)
    /\ start_date = 0
    /\ rebalance_frequency = "None"
    /\ LocalsIdle
    /\ pc = "idle"
    /\ num_scenarios \in 1..MaxScenarios
    /\ i = 0
    /\ dca_scenarios = <<>>
    /\ collected = <<>>
    /\ cpc = "input"

ScenariosNext ==
    \/ BeginScenario
    \/ LoopBody
    \/ LoopSkip
    \/ Finish
    \/ AppendScenario
    \/ Propagate
    \/ ReturnScenarios

SpecScenarios == ScenariosInit /\ [][ScenariosNext]_vars

(***************************************************************************)
(* Properties of collect_dca_scenarios, checked under SpecScenarios.       *)
(***************************************************************************)
\* collect_dca_scenarios has ended, by its return or by an exception
Ended == cpc \in {"returned"} \cup Raised

\* the scenario whose failure the caller gets to see: the one that raised
FailureReported == IF cpc \in Raised THEN {i + 1} ELSE {}

\* the scenarios whose series and label are in what was returned, in order
ScenariosReturned == [k \in 1..Len(collected) |-> collected[k][3][1]]

\* C9: a scenario that fails is fatal for that scenario only: once the run has
\* ended, every scenario is either the one reported as failed or has its series
\* and label in the result, and the result is in the order of the scenarios
C9_FailureIsolated ==
    Ended
    => /\ \A n \in 1..num_scenarios :
             n \in FailureReported \/ n \in Range(ScenariosReturned)
       /\ \A k \in 1..(Len(collected) - 1) :
             ScenariosReturned[k] < ScenariosReturned[k + 1]

====
